---------------------------- MODULE Spec2Model ----------------------------
(***************************************************************************)
(* Chommie Chat (src/Chommie Chat/main.py): the Socket.IO event handlers   *)
(* connect, disconnect, onJoin, onLeave and handleMessage, the in-memory   *)
(* registry activeUsers they share, and the part of the Socket.IO          *)
(* transport they drive (connected sids, per-connection session, room      *)
(* groups maintained by join_room / leave_room).                           *)
(*                                                                         *)
(* Each action is one whole handler invocation.  Handlers run one at a     *)
(* time.  `ev' records which handler ran last, for which connection, and   *)
(* the source line at which it left; `out' the outbound events it emitted, *)
(* each with the set of connections that receive it.                       *)
(*                                                                         *)
(* The transport is Flask-SocketIO: every connected client receives a      *)
(* broadcast; a client receives what is sent to a room from join_room      *)
(* until leave_room or its disconnect, and may be in several rooms; each   *)
(* client has a personal room named by its sid; the session of a           *)
(* connection is forked from the HTTP session at the handshake and goes    *)
(* with the connection.  Room arguments of clients are room names, never   *)
(* connection ids.  Timestamps of payloads are left out; the clock ticks   *)
(* once per connect.                                                       *)
(***************************************************************************)
EXTENDS Integers, Sequences, FiniteSets, TLC

(***************************************************************************)
(* Bounds of the model.                                                    *)
(***************************************************************************)
MaxLen  == 1        \* longest message text a client sends
MaxTime == 2        \* connects accepted before the clock runs out

\* Connection ids (request.sid values) the transport hands out.
ConnIds == {"sid1", "sid2"}

\* A key that is missing from a dict / a value that is None.
Absent == "<absent>"

\* Display names a session may carry or generateGuestUsername may return.
Names == {"alice", "bob"}

\* Config.CHAT_ROOMS (main.py 26-31).
CHAT_ROOMS == {"General", "Academics", "Running Club", "Anime Club"}

\* Room names clients send: two configured rooms and one that is not
\* configured.  Absent stands for a payload without the 'room' key.
RoomNames  == {"General", "Academics", "Lobby"}
RoomInputs == RoomNames \cup {Absent}

\* Characters str.strip() removes, and the characters clients type here:
\* a space and a visible character.
Whitespace == {" ", "\t", "\n"}
Chars      == {" ", "x"}
Texts      == UNION {[1..n -> Chars] : n \in 0..MaxLen}

\* The 'target' field of a private message payload.
Targets == Names \cup {Absent}

\* Message payloads <<room, type, target, msg>> clients send: room messages
\* to every room input, and private messages to every target (their 'room'
\* key, which the private branch never reads, is left out).
Payloads ==
    {<<room, "message", Absent, msg>> : room \in RoomInputs, msg \in Texts}
    \cup {<<Absent, "private", target, msg>> :
              target \in Targets, msg \in Texts}

VARIABLES
    live,          \* transport: sids of the currently connected clients
    session,       \* transport: session['username'] of each connection
    rooms,         \* transport: room name -> sids entered by join_room
    activeUsers,   \* the registry, a dict kept in insertion order
    now,           \* the clock read by datetime.now()
    ev,            \* the handler run by the last step and where it left
    out,           \* the outbound events emitted by the last step
    lastPresence,  \* history: users list of the latest 'activeUsers' event
    registers,     \* history: number of connects accepted and announced
    unregisters,   \* history: number of disconnects that removed an entry
    lastJoin,      \* history: room of each connection's last join in force
    inflight       \* a handler that runs in steps: where it is, what it holds

vars == <<live, session, rooms, activeUsers, now, ev, out,
          lastPresence, registers, unregisters, lastJoin, inflight>>

-----------------------------------------------------------------------------
(***************************************************************************)
(* Pure helpers.                                                           *)
(***************************************************************************)

\* str.strip(): drop leading and trailing whitespace.
RECURSIVE LStrip(_)
LStrip(s) ==
    IF s # <<>> /\ Head(s) \in Whitespace THEN LStrip(Tail(s)) ELSE s

RECURSIVE RStrip(_)
RStrip(s) ==
    IF s # <<>> /\ s[Len(s)] \in Whitespace
    THEN RStrip(SubSeq(s, 1, Len(s) - 1))
    ELSE s

\* (faulty variant: the text is used as sent)
NoStrip(s) == s

Strip(s) == RStrip(LStrip(s))

\* dict.get(key, default)
Get(v, default) == IF v = Absent THEN default ELSE v

\* `sid in activeUsers'
Has(reg, sid) == \E i \in 1..Len(reg) : reg[i].sid = sid

\* position of sid's entry in the dict
IndexOf(reg, sid) == CHOOSE i \in 1..Len(reg) : reg[i].sid = sid

\* activeUsers[sid] = {'username': u, 'connectedAt': t}: a new key goes last,
\* an existing key keeps its place and its value is replaced (no 'room').
SetEntry(reg, sid, u, t) ==
    LET e == [sid |-> sid, username |-> u, connectedAt |-> t, room |-> Absent]
    IN  IF Has(reg, sid)
        THEN [reg EXCEPT ![IndexOf(reg, sid)] = e]
        ELSE Append(reg, e)

\* (faulty variant: the entry is left in the dict)
DelEntryNoop(reg, sid) == reg

\* del activeUsers[sid]
DelEntry(reg, sid) == SelectSeq(reg, LAMBDA e : e.sid # sid)

\* activeUsers[sid]['room'] = room   (the caller checks Has)
SetRoom(reg, sid, room) == [reg EXCEPT ![IndexOf(reg, sid)].room = room]

\* (faulty variant: the room field is left set)
PopRoomNoop(reg, sid) == reg

\* activeUsers[sid].pop('room', None)   (the caller checks Has)
PopRoom(reg, sid) == [reg EXCEPT ![IndexOf(reg, sid)].room = Absent]

\* [user['username'] for user in activeUsers.values()]
Users(reg) == [i \in 1..Len(reg) |-> reg[i].username]

\* (faulty variant: no validation against the room list)
AnyRoomValid(room) == TRUE

\* room in app.config['CHAT_ROOMS']
IsValidRoom(room) == room \in CHAT_ROOMS

\* The loop of handleMessage over activeUsers.items(): the sids it emits
\* to, in order.  It returns after the first entry that carries the target
\* name, so there is at most one.
Matches(reg, target) == {j \in 1..Len(reg) : reg[j].username = target}

\* (faulty variant: the loop does not return after the first emit)
AllMatches(reg, target) ==
    LET hits == SelectSeq(reg, LAMBDA e : e.username = target)
    IN  [i \in 1..Len(hits) |-> hits[i].sid]

\* (faulty variant: the loop keeps the last entry that matches)
LastMatch(reg, target) ==
    LET hits == Matches(reg, target)
    IN  IF hits = {} THEN <<>>
        ELSE <<reg[CHOOSE j \in hits : \A k \in hits : j >= k].sid>>

\* (faulty variant: the loop does not compare the name)
MatchAnyName(reg, target) ==
    IF reg = <<>> THEN <<>> ELSE <<reg[1].sid>>

FirstMatch(reg, target) ==
    LET hits == Matches(reg, target)
    IN  IF hits = {} THEN <<>>
        ELSE <<reg[CHOOSE j \in hits : \A k \in hits : j <= k].sid>>

-----------------------------------------------------------------------------
(***************************************************************************)
(* The transport's send primitives: who receives an emit.                  *)
(***************************************************************************)

\* emit(..., broadcast=True): every connected client.
ToAll(lv) == lv

\* emit(..., room=room): the clients that entered the room.
ToRoom(rm, room) == IF room \in DOMAIN rm THEN rm[room] ELSE {}

\* emit(..., room=sid): the personal room of one connection.
ToSid(lv, sid) == {sid} \cap lv

\* join_room(room) / leave_room(room) for the calling connection.
JoinRoom(rm, sid, room) == [rm EXCEPT ![room] = @ \cup {sid}]

LeaveRoom(rm, sid, room) ==
    IF room \in DOMAIN rm THEN [rm EXCEPT ![room] = @ \ {sid}] ELSE rm

\* The transport closes every room of a connection that disconnects.
CloseRooms(rm, sid) == [r \in DOMAIN rm |-> rm[r] \ {sid}]

\* Outbound events: the event name, the `room=' / `broadcast=' argument of
\* the emit (`to'), the connections the transport delivers it to (`rcpt'),
\* and the payload.
Broadcast == "<broadcast>"

PresenceUpdate(lv, users) ==
    [event |-> "activeUsers", to |-> Broadcast, rcpt |-> ToAll(lv),
     users |-> users, type |-> Absent, msg |-> <<>>, username |-> Absent,
     room |-> Absent, target |-> Absent]

RoomStatus(rm, room, type, username) ==
    [event |-> "status", to |-> room, rcpt |-> ToRoom(rm, room),
     users |-> <<>>, type |-> type, msg |-> <<>>, username |-> username,
     room |-> Absent, target |-> Absent]

RoomMessage(rm, room, msg, username) ==
    [event |-> "message", to |-> room, rcpt |-> ToRoom(rm, room),
     users |-> <<>>, type |-> Absent, msg |-> msg, username |-> username,
     room |-> room, target |-> Absent]

PrivateMessage(lv, sid, msg, from, target) ==
    [event |-> "privateMessage", to |-> sid, rcpt |-> ToSid(lv, sid),
     users |-> <<>>, type |-> Absent, msg |-> msg, username |-> from,
     room |-> Absent, target |-> target]

\* No handler of the connection is between two of its steps.
Idle == [at |-> 0, users |-> <<>>]

\* The handler that ran, the connection it ran for (request.sid) and the
\* line of main.py at which it returned or raised.
Event(kind, sid, line) == [kind |-> kind, sid |-> sid, line |-> line]

-----------------------------------------------------------------------------
(***************************************************************************)
(* History variables, computed from what is observable at the transport:   *)
(* the inbound event and the outbound events it caused.                    *)
(***************************************************************************)

\* users list of the latest PresenceUpdate
HistPresence(o) ==
    IF o # <<>> /\ o[Len(o)].event = "activeUsers"
    THEN o[Len(o)].users
    ELSE lastPresence

\* a register succeeded: the connect was accepted and announced
HistRegisters(e, o) ==
    IF e.kind = "connect" /\ o # <<>> THEN registers + 1 ELSE registers

\* an unregister succeeded: the disconnect removed an entry and announced it
HistUnregisters(e, o) ==
    IF e.kind = "disconnect" /\ o # <<>> THEN unregisters + 1 ELSE unregisters

\* room of the last successful Join (one that was announced) that no Leave
\* (one that was announced) and no Disconnect of the connection has followed
HistJoin(e, o) ==
    IF e.kind = "join" /\ o # <<>>
    THEN [lastJoin EXCEPT ![e.sid] = o[1].to]
    ELSE IF (e.kind = "leave" /\ o # <<>>) \/ e.kind = "disconnect"
    THEN [lastJoin EXCEPT ![e.sid] = Absent]
    ELSE lastJoin

\* One step of a handler: the event, what the step emitted, and the state
\* it leaves behind.
Step(e, o, lv, ss, rm, reg, t, fl) ==
    /\ ev' = e
    /\ out' = o
    /\ live' = lv
    /\ session' = ss
    /\ rooms' = rm
    /\ activeUsers' = reg
    /\ now' = t
    /\ lastPresence' = HistPresence(o)
    /\ registers' = HistRegisters(e, o)
    /\ unregisters' = HistUnregisters(e, o)
    /\ lastJoin' = HistJoin(e, o)
    /\ inflight' = fl

\* One handler invocation that runs from its first line to its exit without
\* another handler in between.
Handled(e, o, lv, ss, rm, reg, t) ==
    Step(e, o, lv, ss, rm, reg, t, inflight)

\* A handler that returned early, or whose exception was caught and logged,
\* at `line' before it changed anything.
Dropped(kind, c, line) ==
    Handled(Event(kind, c, line), <<>>,
            live, session, rooms, activeUsers, now)

-----------------------------------------------------------------------------
(***************************************************************************)
(* The handlers.                                                           *)
(***************************************************************************)

\* generateGuestUsername(): a name built from the time and a random number;
\* any name may come out.
generateGuestUsername == Names

\* connect(): `cookie' is the username the handshake's session carries
\* (Absent when it has none) and `gen' what generateGuestUsername returns.
connect(c, cookie, gen) ==
    LET sess0 == IF c \in live THEN session[c] ELSE cookie
        user  == IF sess0 = Absent THEN gen ELSE sess0
        t     == now + 1
        lv    == live \cup {c}
        reg   == SetEntry(activeUsers, c, user, t)
    IN  /\ now < MaxTime
        /\ Handled(Event("connect", c, 84),
                   <<PresenceUpdate(lv, Users(reg))>>,
                   lv, [session EXCEPT ![c] = user], rooms, reg, t)

\* (faulty variant: no guard)
AlwaysRegistered(reg, sid) == TRUE

\* `if request.sid in activeUsers' of disconnect()
IsRegistered(reg, sid) == Has(reg, sid)

\* disconnect(): the transport has dropped the connection when the handler
\* runs, and closes the connection's rooms and session after it.
disconnect(c) ==
    LET lv  == live \ {c}
        ss  == [session EXCEPT ![c] = Absent]
        rm  == CloseRooms(rooms, c)
        reg == DelEntry(activeUsers, c)
    IN  IF IsRegistered(activeUsers, c)
        THEN Handled(Event("disconnect", c, 101),
                     <<PresenceUpdate(lv, Users(reg))>>,
                     lv, ss, rm, reg, now)
        ELSE Handled(Event("disconnect", c, 93), <<>>,
                     lv, ss, rm, activeUsers, now)

\* (faulty variant: a join out of another room announces a leave there)
onJoinAnnouncesLeave(c, room) ==
    LET rm  == JoinRoom(rooms, c, room)
        reg == SetRoom(activeUsers, c, room)
        old == activeUsers[IndexOf(activeUsers, c)].room
    IN  IF \/ session[c] = Absent
           \/ room = Absent
           \/ ~IsValidRoom(room)
           \/ ~Has(activeUsers, c)
        THEN Dropped("join", c, 114)
        ELSE Handled(Event("join", c, 125),
                     (IF old \in {Absent, room} THEN <<>>
                      ELSE <<RoomStatus(rooms, old, "leave", session[c])>>)
                     \o <<RoomStatus(rm, room, "join", session[c])>>,
                     live, session, rm, reg, now)

\* onJoin(data)
onJoin(c, room) ==
    LET rm  == JoinRoom(rooms, c, room)
        reg == SetRoom(activeUsers, c, room)
    IN  IF session[c] = Absent THEN Dropped("join", c, 109)    \* KeyError
        ELSE IF room = Absent THEN Dropped("join", c, 110)     \* KeyError
        ELSE IF ~IsValidRoom(room) THEN Dropped("join", c, 114)
        ELSE IF ~Has(activeUsers, c)
        THEN Handled(Event("join", c, 117), <<>>,              \* KeyError
                     live, session, rm, activeUsers, now)
        ELSE Handled(Event("join", c, 125),
                     <<RoomStatus(rm, room, "join", session[c])>>,
                     live, session, rm, reg, now)

\* onLeave(data)
onLeave(c, room) ==
    LET rm  == LeaveRoom(rooms, c, room)
        reg == IF Has(activeUsers, c) THEN PopRoom(activeUsers, c)
               ELSE activeUsers
    IN  IF session[c] = Absent THEN Dropped("leave", c, 133)   \* KeyError
        ELSE IF room = Absent THEN Dropped("leave", c, 134)    \* KeyError
        ELSE Handled(Event("leave", c, 146),
                     <<RoomStatus(rm, room, "leave", session[c])>>,
                     live, session, rm, reg, now)

\* (faulty variant: a room message enters its sender into the room)
handleMessageJoins(c, room, type, target, msg) ==
    LET r  == Get(room, "General")
        rm == JoinRoom(rooms, c, r)
    IN  IF \/ session[c] = Absent
           \/ Strip(msg) = <<>>
           \/ Get(type, "message") = "private"
           \/ ~IsValidRoom(r)
        THEN Dropped("message", c, 185)
        ELSE Handled(Event("message", c, 194),
                     <<RoomMessage(rm, r, Strip(msg), session[c])>>,
                     live, session, rm, activeUsers, now)

\* handleMessage(data)
handleMessage(c, room, type, target, msg) ==
    LET r       == Get(room, "General")
        msgType == Get(type, "message")
        message == Strip(msg)
        found   == FirstMatch(activeUsers, target)
    IN  IF session[c] = Absent THEN Dropped("message", c, 154) \* KeyError
        ELSE IF message = <<>> THEN Dropped("message", c, 160)
        ELSE IF msgType = "private"
        THEN IF target = Absent THEN Dropped("message", c, 167)
             ELSE IF found = <<>> THEN Dropped("message", c, 180)
             ELSE Handled(Event("message", c, 178),
                     [i \in 1..Len(found) |->
                        PrivateMessage(live, found[i],
                                       message, session[c], target)],
                     live, session, rooms, activeUsers, now)
        ELSE IF ~IsValidRoom(r) THEN Dropped("message", c, 185)
        ELSE Handled(Event("message", c, 194),
                     <<RoomMessage(rooms, r, message, session[c])>>,
                     live, session, rooms, activeUsers, now)

-----------------------------------------------------------------------------
(***************************************************************************)
(* Specifications.                                                         *)
(***************************************************************************)

Init ==
    /\ live = {}
    /\ session = [c \in ConnIds |-> Absent]
    /\ rooms = [r \in RoomNames |-> {}]
    /\ activeUsers = <<>>
    /\ now = 0
    /\ ev = Event("none", Absent, 0)
    /\ out = <<>>
    /\ lastPresence = <<>>
    /\ registers = 0
    /\ unregisters = 0
    /\ lastJoin = [c \in ConnIds |-> Absent]
    /\ inflight = [c \in ConnIds |-> Idle]

\* The transport as Socket.IO drives the handlers: connect once for a new
\* sid, join / leave / message only for a connected sid.  A disconnect may
\* arrive for a connection that is already gone (the handler guards it).
Connect ==
    \E c \in ConnIds \ live, cookie \in Names \cup {Absent},
       gen \in generateGuestUsername :
        connect(c, cookie, gen)

Disconnect == \E c \in ConnIds : disconnect(c)

Join == \E c \in live, room \in RoomInputs : onJoin(c, room)

Leave == \E c \in live, room \in RoomInputs : onLeave(c, room)

Message ==
    \E c \in live, p \in Payloads :
        handleMessage(c, p[1], p[2], p[3], p[4])

Next == Connect \/ Disconnect \/ Join \/ Leave \/ Message

Spec == Init /\ [][Next]_vars

-----------------------------------------------------------------------------
(***************************************************************************)
(* The handlers outside the regular course of the transport: an emit that  *)
(* raises, a handler that runs after the disconnect of its connection, a   *)
(* connect for a sid the registry holds.                                   *)
(***************************************************************************)

\* connect() when the emit of lines 80-82 raises: the entry is stored by
\* then (75-78), the except clause logs and returns False (86-88), and the
\* transport refuses the connection and drops its session.
connectRefused(c, cookie, gen) ==
    LET user == IF cookie = Absent THEN gen ELSE cookie
        t    == now + 1
        reg  == SetEntry(activeUsers, c, user, t)
    IN  /\ now < MaxTime
        /\ Handled(Event("connect", c, 88), <<>>,
                   live, session, rooms, reg, t)

\* disconnect() while a handler of the same connection, started before it,
\* has not run yet: that handler keeps its request context and the session
\* in it.
disconnectEarly(c) ==
    LET lv  == live \ {c}
        rm  == CloseRooms(rooms, c)
        reg == DelEntry(activeUsers, c)
    IN  /\ IsRegistered(activeUsers, c)
        /\ Handled(Event("disconnect", c, 101),
                   <<PresenceUpdate(lv, Users(reg))>>,
                   lv, session, rm, reg, now)

ConnectRefused ==
    \E c \in ConnIds \ live, cookie \in Names \cup {Absent},
       gen \in generateGuestUsername :
        connectRefused(c, cookie, gen)

\* the connect handler called again for a connected sid
ConnectAgain ==
    \E c \in live, gen \in generateGuestUsername : connect(c, Absent, gen)

DisconnectEarly == \E c \in live : disconnectEarly(c)

\* the join handler that was started before the disconnect
JoinLate == \E c \in ConnIds \ live, room \in RoomInputs : onJoin(c, room)

NextOpen ==
    Next \/ ConnectRefused \/ ConnectAgain \/ DisconnectEarly \/ JoinLate

SpecOpen == Init /\ [][NextOpen]_vars

-----------------------------------------------------------------------------
(***************************************************************************)
(* connect() and disconnect() of different connections run in threads of   *)
(* their own and share activeUsers without a lock: each changes the dict,  *)
(* then builds the users list, then emits it, and a handler of another     *)
(* connection may run between two of these steps.                          *)
(***************************************************************************)

\* the handler that is at line `at'
KindAt(at) == IF at \in {78, 81} THEN "connect" ELSE "disconnect"

\* connect(), lines 72-78
storeEntry(c, cookie, gen) ==
    LET user == IF cookie = Absent THEN gen ELSE cookie
        t    == now + 1
    IN  /\ now < MaxTime
        /\ Step(Event("connect", c, 78), <<>>,
                live \cup {c}, [session EXCEPT ![c] = user], rooms,
                SetEntry(activeUsers, c, user, t), t,
                [inflight EXCEPT ![c] = [at |-> 78, users |-> <<>>]])

\* disconnect(), lines 93-95
deleteEntry(c) ==
    /\ IsRegistered(activeUsers, c)
    /\ Step(Event("disconnect", c, 95), <<>>,
            live \ {c}, session, rooms, DelEntry(activeUsers, c), now,
            [inflight EXCEPT ![c] = [at |-> 95, users |-> <<>>]])

\* the list comprehension of line 81 or 98
listUsers(c) ==
    LET at == IF inflight[c].at = 78 THEN 81 ELSE 98
    IN  Step(Event(KindAt(at), c, at), <<>>,
             live, session, rooms, activeUsers, now,
             [inflight EXCEPT ![c] = [at |-> at, users |-> Users(activeUsers)]])

\* the emit of lines 80-82 or 97-99, and the return of the handler; after
\* disconnect() the transport closes the connection's rooms and session
emitUsers(c) ==
    LET kind == KindAt(inflight[c].at)
        gone == kind = "disconnect"
    IN  Step(Event(kind, c, IF gone THEN 101 ELSE 84),
             <<PresenceUpdate(live, inflight[c].users)>>,
             live,
             IF gone THEN [session EXCEPT ![c] = Absent] ELSE session,
             IF gone THEN CloseRooms(rooms, c) ELSE rooms,
             activeUsers, now,
             [inflight EXCEPT ![c] = Idle])

StoreEntry ==
    \E c \in ConnIds \ live, cookie \in Names \cup {Absent},
       gen \in generateGuestUsername :
        inflight[c] = Idle /\ storeEntry(c, cookie, gen)

DeleteEntry == \E c \in live : inflight[c] = Idle /\ deleteEntry(c)

ListUsers == \E c \in ConnIds : inflight[c].at \in {78, 95} /\ listUsers(c)

EmitUsers == \E c \in ConnIds : inflight[c].at \in {81, 98} /\ emitUsers(c)

NextConc == StoreEntry \/ DeleteEntry \/ ListUsers \/ EmitUsers

SpecConc == Init /\ [][NextConc]_vars

-----------------------------------------------------------------------------
(***************************************************************************)
(* Vocabulary of the properties, stated on the registry and on what the    *)
(* transport observes, independently of the handlers' helpers.             *)
(***************************************************************************)

\* connection ids that are keys of the registry
Registered == {activeUsers[i].sid : i \in 1..Len(activeUsers)}

\* display names in the registry, in dict order
DisplayNames == [i \in 1..Len(activeUsers) |-> activeUsers[i].username]

\* room field of a registered connection (Absent when unset)
RoomField(c) ==
    LET i == CHOOSE k \in 1..Len(activeUsers) : activeUsers[k].sid = c
    IN  activeUsers[i].room

\* room field of every registered connection
RoomFields == [c \in Registered |-> RoomField(c)]

\* membersOf(R): registered connections whose room field is R
membersOf(R) == {c \in Registered : RoomField(c) = R}

\* the text is empty or consists only of whitespace
IsBlank(text) == \A i \in 1..Len(text) : text[i] \in Whitespace

\* the first registered connection that bears display name n
FirstHolder(n) ==
    LET hits == {i \in 1..Len(activeUsers) : activeUsers[i].username = n}
    IN  activeUsers[CHOOSE i \in hits : \A k \in hits : i <= k].sid

\* connections that receive an event named `name' among the events o
Receivers(o, name) ==
    UNION {o[i].rcpt : i \in {k \in 1..Len(o) : o[k].event = name}}

\* number of events named `name' among the events o
Count(o, name) == Cardinality({k \in 1..Len(o) : o[k].event = name})

\* message payloads by the case they fall in
BlankPayloads == {p \in Payloads : IsBlank(p[4])}

PrivatePayloads == {p \in Payloads : p[2] = "private"}

NonBlankPrivatePayloads == {p \in PrivatePayloads : ~IsBlank(p[4])}

\* the handlers' state other than the record of the last step
Unchanged == UNCHANGED <<live, session, rooms, activeUsers, now>>

-----------------------------------------------------------------------------
\* C1  Presence consistency: the registry holds one entry per connected
\* client, under the display name of its session; the users list of the
\* latest PresenceUpdate is the list of display names in the registry; and
\* its length is the number of successful registers minus the number of
\* successful unregisters.
PresenceConsistency ==
    /\ Cardinality(Registered) = Len(activeUsers)
    /\ Registered = live
    /\ \A i \in 1..Len(activeUsers) :
          activeUsers[i].username = session[activeUsers[i].sid]
    /\ lastPresence = DisplayNames
    /\ Len(lastPresence) = registers - unregisters

\* a disconnect has just removed one of two registered connections
PresenceWitness ==
    /\ ev.kind = "disconnect" /\ ev.line = 101
    /\ Len(activeUsers) = 1
    /\ registers = 2 /\ unregisters = 1

\* C2  (as claimed) For every room, the connections a room-scoped send
\* reaches, the transport group of the room, are the registered
\* connections whose room field is that room.
GroupEqualsMembers ==
    \A R \in RoomNames : ToRoom(rooms, R) = membersOf(R)

\* C3  Room membership derivation: for every room R, the registered
\* connections whose room field is R are the connections whose last
\* successful Join was to R and has not been followed by a Leave or a
\* Disconnect (a later successful Join replaces it).
MembershipDerivation ==
    \A R \in RoomNames : membersOf(R) = {c \in ConnIds : lastJoin[c] = R}

\* a connection has left while the other is still in a room
MembershipWitness ==
    /\ ev.kind = "leave" /\ ev.line = 146
    /\ lastJoin[ev.sid] = Absent
    /\ \E c \in ConnIds : lastJoin[c] \in CHAT_ROOMS /\ c \in membersOf(lastJoin[c])

\* C4  Idempotent disconnect: a Disconnect for a connection id the registry
\* does not hold leaves the registry unchanged and emits nothing; a
\* Disconnect right after a Disconnect of the same id that removed it emits
\* nothing, so the two emit one PresenceUpdate in total.
IdempotentDisconnect ==
    [][ev'.kind = "disconnect" =>
         \A c \in {ev'.sid} :
            /\ \/ /\ activeUsers' = activeUsers
                  /\ out' = <<>>
                  /\ lastPresence' = lastPresence
               \/ ~(c \notin Registered /\ disconnect(c))
            /\ \/ Count(out, "activeUsers") + Count(out', "activeUsers") = 1
               \/ ~(ev = Event("disconnect", c, 101) /\ disconnect(c))
      ]_vars

\* a second Disconnect for a connection that an earlier one removed
IdempotentDisconnectWitness ==
    /\ ev.kind = "disconnect" /\ ev.line = 93
    /\ unregisters >= 1
    /\ out = <<>>

\* C5  Invalid room rejection: a Join, or a room message, that names a
\* room outside CHAT_ROOMS emits no RoomStatus and no RoomMessage and
\* leaves every connection's room field unchanged.
InvalidRoomRejection ==
    [][ev'.kind \in {"join", "message"} =>
         \/ /\ Count(out', "status") = 0
            /\ Count(out', "message") = 0
            /\ RoomFields' = RoomFields
         \/ \A c \in {ev'.sid}, room \in RoomNames \ CHAT_ROOMS :
               /\ ~onJoin(c, room)
               /\ \A msg \in Texts :
                     ~handleMessage(c, room, "message", Absent, msg)
      ]_vars

\* a Join to an unconfigured room by a connection that is in a room
InvalidRoomWitness ==
    /\ ev.kind = "join" /\ ev.line = 114
    /\ ev.sid \in Registered
    /\ RoomField(ev.sid) \in CHAT_ROOMS

\* C6  Empty message rejection: a Message of any kind whose text is empty
\* or all whitespace emits nothing and changes no state.
EmptyMessageRejection ==
    [][ev'.kind = "message" =>
         \/ (out' = <<>> /\ Unchanged)
         \/ \A c \in {ev'.sid}, p \in BlankPayloads :
               ~handleMessage(c, p[1], p[2], p[3], p[4])
      ]_vars

\* a message was dropped for its text while two connections were registered
EmptyMessageWitness ==
    /\ ev.kind = "message" /\ ev.line = 160
    /\ Len(activeUsers) = 2
    /\ \E R \in CHAT_ROOMS : ToRoom(rooms, R) # {}

\* C7  Private message exclusivity: a private Message with a non-blank text
\* whose target is the display name of at least one registered connection
\* emits one PrivateMessage, to exactly one connection, and no RoomMessage.
PrivateExclusivity ==
    [][ev'.kind = "message" =>
         \/ /\ Count(out', "privateMessage") = 1
            /\ Cardinality(Receivers(out', "privateMessage")) = 1
            /\ Count(out', "message") = 0
         \/ \A c \in {ev'.sid}, p \in NonBlankPrivatePayloads :
               ~(/\ \E i \in 1..Len(activeUsers) :
                       activeUsers[i].username = p[3]
                 /\ handleMessage(c, p[1], p[2], p[3], p[4]))
      ]_vars

\* a private message was delivered while two connections bore the target name
PrivateExclusivityWitness ==
    /\ ev.kind = "message" /\ ev.line = 178
    /\ Len(activeUsers) = 2
    /\ \A i \in 1..2 : activeUsers[i].username = out[1].target

\* C8  (as claimed) The connection that sent a private message is not a
\* recipient of the PrivateMessage it causes.
PrivateSenderNoEcho ==
    (ev.kind = "message" /\ ev.line = 178) =>
        ev.sid \notin Receivers(out, "privateMessage")

\* C8  (amended) The PrivateMessage goes to the first registered connection
\* that bears the target name; the sender receives it exactly when the
\* sender is that connection.
PrivateSenderOnlyAsTarget ==
    (ev.kind = "message" /\ ev.line = 178) =>
        /\ Receivers(out, "privateMessage") = {FirstHolder(out[1].target)}
        /\ ev.sid \in Receivers(out, "privateMessage")
              <=> ev.sid = FirstHolder(out[1].target)

\* the sender bears the target name, is not first to bear it, and gets nothing
PrivateSenderWitness ==
    /\ ev.kind = "message" /\ ev.line = 178
    /\ session[ev.sid] = out[1].target
    /\ ev.sid \notin Receivers(out, "privateMessage")

\* C9  Unresolvable private target: a private Message whose target is
\* missing or is the display name of no registered connection emits
\* nothing and leaves the registry unchanged.
UnresolvablePrivateTarget ==
    [][ev'.kind = "message" =>
         \/ (out' = <<>> /\ activeUsers' = activeUsers)
         \/ \A c \in {ev'.sid}, p \in PrivatePayloads :
               ~(/\ \/ p[3] = Absent
                    \/ \A i \in 1..Len(activeUsers) :
                          activeUsers[i].username # p[3]
                 /\ handleMessage(c, p[1], p[2], p[3], p[4]))
      ]_vars

\* a private message to a name nobody bears was dropped
UnresolvableWitness ==
    /\ ev.kind = "message" /\ ev.line = 180
    /\ Len(activeUsers) >= 1
    /\ out = <<>>

\* C10  (as claimed) A room Message with a non-blank text and a configured
\* room emits one RoomMessage whose recipients are the connections in that
\* room, the sender among them.
RoomFanOutIncludesSender ==
    (ev.kind = "message" /\ ev.line = 194) =>
        /\ Count(out, "message") = 1
        /\ Receivers(out, "message") = membersOf(out[1].room)
        /\ ev.sid \in Receivers(out, "message")

\* C11  (as claimed) A Join by a registered connection with a configured
\* room R sets the connection's room field to R and emits exactly one
\* RoomStatus of type join, whose recipients are the connections in R once
\* the join is in force, the joiner among them.
JoinFanOut ==
    (ev.kind = "join" /\ ev.line = 125) =>
        /\ RoomField(ev.sid) = out[1].to
        /\ Len(out) = 1
        /\ out[1].event = "status" /\ out[1].type = "join"
        /\ Receivers(out, "status") = membersOf(out[1].to)
        /\ ev.sid \in Receivers(out, "status")

\* C12  (as claimed) A Leave that names room R clears the connection's room
\* field whatever room it was in and emits exactly one RoomStatus of type
\* leave, whose recipients are the connections in R once the leaver is
\* removed, so that the leaver does not receive its own notice.
LeaveOrdering ==
    (ev.kind = "leave" /\ ev.line = 146) =>
        /\ ev.sid \in Registered => RoomField(ev.sid) = Absent
        /\ Len(out) = 1
        /\ out[1].event = "status" /\ out[1].type = "leave"
        /\ Receivers(out, "status") = membersOf(out[1].to)
        /\ ev.sid \notin Receivers(out, "status")

\* C13  (as claimed) No ghost entries: every key of the registry is a
\* connected client, a Disconnect leaves no entry of its connection behind,
\* and a connect that was refused leaves no entry.
NoGhostEntries ==
    /\ Registered \subseteq live
    /\ ev.kind = "disconnect" => ev.sid \notin Registered
    /\ (ev.kind = "connect" /\ ev.line = 88) => ev.sid \notin Registered

\* C14  Valid-room invariant: the room field of every registry entry is
\* unset or one of the configured rooms.
ValidRoomInvariant ==
    \A i \in 1..Len(activeUsers) :
        activeUsers[i].room \in CHAT_ROOMS \cup {Absent}

\* a Join to an unconfigured room was dropped while both connections were
\* in rooms
ValidRoomWitness ==
    /\ ev.kind = "join" /\ ev.line = 114
    /\ Len(activeUsers) = 2
    /\ \A i \in 1..2 : activeUsers[i].room \in CHAT_ROOMS

\* C15  (as claimed) Atomic snapshot under concurrency: when the connect
\* and disconnect handlers of different connections interleave, every
\* PresenceUpdate carries the display names the registry holds at the
\* moment it is sent, and once no handler is under way the latest
\* PresenceUpdate lists exactly the display names in the registry.
SnapshotAtomic ==
    /\ \A i \in 1..Len(out) :
          out[i].event = "activeUsers" => out[i].users = DisplayNames
    /\ (\A c \in ConnIds : inflight[c] = Idle) => lastPresence = DisplayNames

\* C16  Room switch without leave notice: a successful Join to R2 by a
\* connection whose room field is R1, another room, overwrites the field
\* with R2 and emits exactly one event, a RoomStatus of type join to R2;
\* nothing is emitted to R1.
RoomSwitchSilent ==
    [][ev'.kind = "join" =>
         \A c \in {ev'.sid}, R2 \in RoomNames \cap CHAT_ROOMS :
            \/ ~(/\ c \in Registered
                 /\ RoomField(c) \in CHAT_ROOMS \ {R2}
                 /\ onJoin(c, R2))
            \/ /\ RoomField(c)' = R2
               /\ Len(out') = 1
               /\ out'[1].event = "status" /\ out'[1].type = "join"
               /\ out'[1].to = R2
      ]_vars

\* a Join was announced to one room while the joiner's earlier room still
\* has it in its transport group
RoomSwitchWitness ==
    /\ ev.kind = "join" /\ ev.line = 125
    /\ RoomField(ev.sid) = out[1].to
    /\ \E R1 \in CHAT_ROOMS \ {out[1].to} : ev.sid \in ToRoom(rooms, R1)

\* C17  (as claimed) No partial failure on Join: a Join with a configured
\* room for a connection id the registry does not hold has no effect: the
\* registry, the room membership used by room-scoped sends and the emitted
\* events are as before.
JoinNoPartialFailure ==
    [][ev'.kind = "join" =>
         \/ (out' = <<>> /\ Unchanged)
         \/ \A c \in {ev'.sid}, room \in RoomNames \cap CHAT_ROOMS :
               ~(c \notin Registered /\ onJoin(c, room))
      ]_vars

\* C18  (as claimed) Duplicate registration is rejected: a Connect for a
\* connection id the registry holds emits nothing and leaves the entry
\* (display name, connect time and room) as it was.
DuplicateRejected ==
    [][ev'.kind = "connect" =>
         \/ (out' = <<>> /\ activeUsers' = activeUsers)
         \/ \A c \in {ev'.sid} :
               ~(/\ c \in Registered
                 /\ \E cookie \in Names \cup {Absent},
                       gen \in generateGuestUsername :
                       connect(c, cookie, gen))
      ]_vars

\* C19  No delivery after disconnect: every event is delivered to, and
\* every private message addressed to, connections that are connected when
\* it is emitted, so that a connection receives nothing between its
\* Disconnect and a new Connect; and a Disconnect emits no RoomStatus.
NoDeliveryAfterDisconnect ==
    /\ \A i \in 1..Len(out) :
          /\ out[i].rcpt \subseteq live
          /\ out[i].to \notin ConnIds \ live
    /\ ev.kind = "disconnect" =>
          /\ Count(out, "status") = 0
          /\ \A i \in 1..Len(out) : ev.sid \notin out[i].rcpt

\* a room message was delivered, or a private message dropped, after the
\* disconnect of the other connection
NoDeliveryWitness ==
    /\ ev.kind = "message" /\ ev.line \in {180, 194}
    /\ unregisters >= 1
    /\ Len(activeUsers) = 1
    /\ ev.line = 194 => out[1].rcpt = {ev.sid}

\* C20  Message is read-only: a Message, delivered or dropped, leaves the
\* registry and the room membership of every connection unchanged; a step
\* that changes them is a Connect, Disconnect, Join or Leave.
MessageReadOnly ==
    [][/\ ev'.kind = "message" =>
             /\ activeUsers' = activeUsers
             /\ rooms' = rooms
             /\ live' = live
       /\ (activeUsers' # activeUsers \/ rooms' # rooms) =>
             ev'.kind \in {"connect", "disconnect", "join", "leave"}
      ]_vars

\* a room message was delivered to two connections in the room
MessageReadOnlyWitness ==
    /\ ev.kind = "message" /\ ev.line = 194
    /\ Cardinality(out[1].rcpt) = 2
    /\ out[1].rcpt = membersOf(out[1].to)

=============================================================================
